---- MODULE Spec2Model ----
(***************************************************************************)
(* UsdImagingCapsuleAdapter (pxr/usdImaging/usdImaging/capsuleAdapter.cpp) *)
(* as a state machine: one capsule primitive of the stage, the adapter's   *)
(* handlers TrackVariability, ProcessPropertyChange, GetPoints and         *)
(* GetTopology, and the threads that call GetTopology concurrently.        *)
(*                                                                         *)
(* Doubles are modelled in tenths (2.0 is 20, 0.5 is 5).  What an          *)
(* attribute holds at a time is <<v>> (a value can be read) or <<>> (the   *)
(* read fails).                                                            *)
(***************************************************************************)
EXTENDS Integers, Sequences, FiniteSets, TLC

VARIABLES
    primType,       \* the schema type the prim is defined with
    value,          \* value[a][t]: what attribute a holds at time t
    timeVarying,    \* the attributes whose value might be time-varying
    edits,          \* number of attribute edits made so far
    last,           \* the last handler call on the stage as it is: inputs, outputs
    guard,          \* state of the function-local static of GetTopology
    topology,       \* the function-local static itself, <<>> until constructed
    constructions,  \* how many times the static has been constructed
    pc,             \* pc[th]: where thread th is inside GetTopology
    callArgs,       \* callArgs[th]: the arguments of th's current call
    result          \* result[th]: what th's last completed call returned

vars == <<primType, value, timeVarying, edits, last,
          guard, topology, constructions, pc, callArgs, result>>

stageVars == <<primType, value, timeVarying, edits>>
topoVars == <<guard, topology, constructions, pc, callArgs, result>>

----
\* Bounds of the model.
MaxEdits == 3
NumThreads == 2

Threads == 1..NumThreads
Times == {1, 2}

----
\* The stage: schema types, attributes and their values.

PrimTypes == {"Capsule", "Capsule_1", "Other"}

Attrs == {"height", "radius", "radiusBottom", "radiusTop", "axis"}

\* Values an attribute can be authored with (the first of each is the
\* schema's fallback, read when nothing is authored).
AttrValues(a) ==
    IF a = "axis" THEN {"Z", "X"}
    ELSE IF a = "height" THEN {10, 30}
    ELSE {5, 3}

Fallback(a) ==
    IF a = "axis" THEN "Z" ELSE IF a = "height" THEN 10 ELSE 5

Slots(a) == {<<>>} \cup {<<v>> : v \in AttrValues(a)}

ThePrim == [type |-> primType, value |-> value]

\* prim.IsA<CapsuleType>()
IsA(prim, CapsuleType) == prim.type = CapsuleType

\* UsdAttribute::Get(&out, time): the value and success; out is left alone
\* when the read fails.
Get(prim, a, time, out) ==
    IF prim.value[a][time] # <<>>
    THEN [ok |-> TRUE, out |-> prim.value[a][time][1]]
    ELSE [ok |-> FALSE, out |-> out]

----
\* GetPoints: the resolution of the shape parameters.

DefaultHeight == 20
DefaultRadiusBottom == 5
DefaultRadiusTop == 5
DefaultAxis == "Z"
sweep == 360
numRadial == 10
numCapAxial == 4

Logged(p, event) == [p EXCEPT !.trace = Append(@, event)]

\* extractRadii(UsdGeomCapsule const&, ...) that fills the bottom radius only.
extractRadii_Capsule_BottomOnly(prim, time, p) ==
    LET r  == Get(prim, "radius", time, p.radiusBottom)
        p1 == Logged([p EXCEPT !.radiusBottom = r.out], <<"Get", "radius">>)
    IN  IF ~r.ok THEN Logged(p1, <<"TF_WARN", "radius">>) ELSE p1

\* extractRadii(UsdGeomCapsule const&, ...)
extractRadii_Capsule(prim, time, p) ==
    LET r  == Get(prim, "radius", time, p.radiusBottom)
        p1 == Logged([p EXCEPT !.radiusBottom = r.out], <<"Get", "radius">>)
    IN  IF ~r.ok
        THEN Logged(p1, <<"TF_WARN", "radius">>)
        ELSE [p1 EXCEPT !.radiusTop = p1.radiusBottom]

\* extractRadii(UsdGeomCapsule_1 const&, ...)
extractRadii_Capsule_1(prim, time, p) ==
    LET rb == Get(prim, "radiusBottom", time, p.radiusBottom)
        p1 == Logged([p EXCEPT !.radiusBottom = rb.out],
                     <<"Get", "radiusBottom">>)
        p2 == IF ~rb.ok THEN Logged(p1, <<"TF_WARN", "radiusBottom">>) ELSE p1
        rt == Get(prim, "radiusTop", time, p2.radiusTop)
        p3 == Logged([p2 EXCEPT !.radiusTop = rt.out], <<"Get", "radiusTop">>)
    IN  IF ~rt.ok THEN Logged(p3, <<"TF_WARN", "radiusTop">>) ELSE p3

extractRadii(CapsuleType, prim, time, p) ==
    IF CapsuleType = "Capsule"
    THEN extractRadii_Capsule(prim, time, p)
    ELSE extractRadii_Capsule_1(prim, time, p)

\* extractCapsuleParameters that gives up at the first failed read.
extractCapsuleParameters_AbortOnFailure(CapsuleType, prim, time, p) ==
    LET p0 == Logged(p, <<"IsA", CapsuleType>>)
    IN  IF ~IsA(prim, CapsuleType)
        THEN p0
        ELSE
          LET h  == Get(prim, "height", time, p0.height)
              p1 == Logged([p0 EXCEPT !.height = h.out], <<"Get", "height">>)
          IN  IF ~h.ok
              THEN Logged(p1, <<"TF_WARN", "height">>)
              ELSE
                LET p3 == extractRadii(CapsuleType, prim, time, p1)
                    a  == Get(prim, "axis", time, p3.axis)
                    p4 == Logged([p3 EXCEPT !.axis = a.out], <<"Get", "axis">>)
                IN  IF ~a.ok THEN Logged(p4, <<"TF_WARN", "axis">>) ELSE p4

\* extractCapsuleParameters<CapsuleType>(prim, time, height, radiusBottom,
\* radiusTop, axis)
extractCapsuleParameters(CapsuleType, prim, time, p) ==
    LET p0 == Logged(p, <<"IsA", CapsuleType>>)
    IN  IF ~IsA(prim, CapsuleType)
        THEN p0
        ELSE
          LET h  == Get(prim, "height", time, p0.height)
              p1 == Logged([p0 EXCEPT !.height = h.out], <<"Get", "height">>)
              p2 == IF ~h.ok THEN Logged(p1, <<"TF_WARN", "height">>) ELSE p1
              p3 == extractRadii(CapsuleType, prim, time, p2)
              a  == Get(prim, "axis", time, p3.axis)
              p4 == Logged([p3 EXCEPT !.axis = a.out], <<"Get", "axis">>)
          IN  IF ~a.ok THEN Logged(p4, <<"TF_WARN", "axis">>) ELSE p4

\* UsdImagingGprimAdapter::GetImplicitBasis(axis): the columns (u, v, spine)
GetImplicitBasis(axis) ==
    IF axis = "X" THEN <<"Y", "Z", "X">>
    ELSE IF axis = "Y" THEN <<"Z", "X", "Y">>
    ELSE <<"X", "Y", "Z">>

\* The two extractCapsuleParameters calls of GetPoints in the other order.
ResolveParameters_NewestFirst(prim, time) ==
    LET p0 == [height |-> DefaultHeight,
               radiusBottom |-> DefaultRadiusBottom,
               radiusTop |-> DefaultRadiusTop,
               axis |-> DefaultAxis,
               trace |-> <<>>]
        p1 == extractCapsuleParameters("Capsule_1", prim, time, p0)
    IN  extractCapsuleParameters("Capsule", prim, time, p1)

\* The locals of GetPoints after both extractCapsuleParameters calls.
ResolveParameters(prim, time) ==
    LET p0 == [height |-> DefaultHeight,
               radiusBottom |-> DefaultRadiusBottom,
               radiusTop |-> DefaultRadiusTop,
               axis |-> DefaultAxis,
               trace |-> <<>>]
        p1 == extractCapsuleParameters("Capsule", prim, time, p0)
    IN  extractCapsuleParameters("Capsule_1", prim, time, p1)

\* GetPoints(prim, time): what is handed to
\* GeomUtilCapsuleMeshGenerator::GeneratePoints, and the calls made on the way.
GetPoints(prim, time) ==
    LET p == ResolveParameters(prim, time)
    IN  [numRadial |-> numRadial, numCapAxial |-> numCapAxial,
         radiusBottom |-> p.radiusBottom, radiusTop |-> p.radiusTop,
         height |-> p.height, sweep |-> sweep,
         axis |-> p.axis, basis |-> GetImplicitBasis(p.axis),
         trace |-> p.trace]

----
\* TrackVariability and ProcessPropertyChange.

DirtyBits == {"DirtyPoints", "DirtyTransform", "DirtyVisibility"}
DirtyPoints == "DirtyPoints"

PropertyNames == Attrs \cup {"visibility", "xformOp:translate"}

\* UsdImagingPrimAdapter::_IsVarying(prim, attrName, dirtyFlag, perfToken,
\* dirtyFlags, inherited): queries whether the attribute's value might be
\* time-varying and, if so, ORs dirtyFlag into *dirtyFlags.
_IsVarying(varying, attrName, dirtyFlag, s) ==
    [bits |-> IF attrName \in varying THEN s.bits \cup {dirtyFlag} ELSE s.bits,
     queries |-> Append(s.queries, attrName)]

\* A check of TrackVariability without its DirtyPoints guard.
CheckPoints_NoShortCircuit(varying, attrName, s) ==
    _IsVarying(varying, attrName, DirtyPoints, s)

\* One guarded check of TrackVariability.
CheckPoints(varying, attrName, s) ==
    IF DirtyPoints \notin s.bits
    THEN _IsVarying(varying, attrName, DirtyPoints, s)
    ELSE s

\* TrackVariability whose axis check passes the wrong dirty flag.
TrackVariability_AxisDirtiesTransform(varying, baseBits) ==
    LET s0 == [bits |-> baseBits, queries |-> <<>>]
        s1 == CheckPoints(varying, "height", s0)
        s2 == CheckPoints(varying, "radius", s1)
    IN  IF DirtyPoints \notin s2.bits
        THEN _IsVarying(varying, "axis", "DirtyTransform", s2)
        ELSE s2

\* TrackVariability(prim, cachePath, timeVaryingBits, instancerContext);
\* baseBits is what BaseAdapter::TrackVariability left in *timeVaryingBits.
TrackVariability(varying, baseBits) ==
    LET s0 == [bits |-> baseBits, queries |-> <<>>]
        s1 == CheckPoints(varying, "height", s0)
        s2 == CheckPoints(varying, "radius", s1)
    IN  CheckPoints(varying, "axis", s2)

\* ProcessPropertyChange that treats an unrecognised name as harmless.
ProcessPropertyChange_EmptyForUnknown(propertyName, baseMask) ==
    IF \/ propertyName = "height"
       \/ propertyName = "radius"
       \/ propertyName = "axis"
    THEN {DirtyPoints}
    ELSE {}

\* ProcessPropertyChange(prim, cachePath, propertyName); baseMask is what
\* BaseAdapter::ProcessPropertyChange returns for the same arguments.
ProcessPropertyChange(propertyName, baseMask) ==
    IF \/ propertyName = "height"
       \/ propertyName = "radius"
       \/ propertyName = "axis"
    THEN {DirtyPoints}
    ELSE baseMask

----
\* GetTopology: the function-local static and the threads that reach it.

\* GeomUtilCapsuleMeshGenerator::GenerateTopology(numRadial, numCapAxial),
\* wrapped in HdMeshTopology: a value of the two resolutions only.
GenerateTopology(nRadial, nCapAxial) ==
    [numRadial |-> nRadial, numCapAxial |-> nCapAxial]

\* The initialiser of the static (evaluated by the thread that finds it
\* uninitialised).
TopologyInitializer(args) == GenerateTopology(numRadial, numCapAxial)

\* A static without its initialisation guard: every call initialises.
MustInitialize_Always(g) == TRUE

\* Whether a thread reaching the declaration has to run the initialiser.
MustInitialize(g) == g = "uninit"

----
\* Actions.

Init ==
    /\ primType \in PrimTypes
    /\ value = [a \in Attrs |-> [t \in Times |-> <<Fallback(a)>>]]
    /\ timeVarying = {}
    /\ edits = 0
    /\ last = [op |-> "none"]
    /\ guard = "uninit"
    /\ topology = <<>>
    /\ constructions = 0
    /\ pc = [th \in Threads |-> "idle"]
    /\ callArgs = [th \in Threads |-> <<>>]
    /\ result = [th \in Threads |-> <<>>]

\* An edit of the stage: attribute a gets a new value (or a block) at time t.
SetValue(editable) ==
    \E a \in editable, t \in Times : \E s \in Slots(a) :
        /\ edits < MaxEdits
        /\ value[a][t] # s
        /\ value' = [value EXCEPT ![a][t] = s]
        /\ edits' = edits + 1
        /\ last' = [op |-> "none"]
        /\ UNCHANGED <<primType, timeVarying>>
        /\ UNCHANGED topoVars

\* An edit of the stage: attribute a gains or loses its time samples.
SetTimeVarying ==
    \E a \in Attrs :
        /\ timeVarying' = IF a \in timeVarying
                          THEN timeVarying \ {a}
                          ELSE timeVarying \cup {a}
        /\ last' = [op |-> "none"]
        /\ UNCHANGED <<primType, value, edits>>
        /\ UNCHANGED topoVars

CallTrackVariability ==
    \E baseBits \in SUBSET DirtyBits :
        LET r == TrackVariability(timeVarying, baseBits)
        IN  /\ last' = [op |-> "TrackVariability", baseBits |-> baseBits,
                        bits |-> r.bits, queries |-> r.queries]
            /\ UNCHANGED stageVars
            /\ UNCHANGED topoVars

CallProcessPropertyChange ==
    \E propertyName \in PropertyNames, baseMask \in SUBSET DirtyBits :
        /\ last' = [op |-> "ProcessPropertyChange",
                    propertyName |-> propertyName, baseMask |-> baseMask,
                    mask |-> ProcessPropertyChange(propertyName, baseMask)]
        /\ UNCHANGED stageVars
        /\ UNCHANGED topoVars

CallGetPoints ==
    \E time \in Times :
        /\ last' = [op |-> "GetPoints", time |-> time,
                    out |-> GetPoints(ThePrim, time)]
        /\ UNCHANGED stageVars
        /\ UNCHANGED topoVars

\* A thread calls GetTopology(prim, cachePath, time).
TopologyCall(th) ==
    /\ pc[th] = "idle"
    /\ \E time \in Times :
         callArgs' = [callArgs EXCEPT ![th] = <<primType, time>>]
    /\ pc' = [pc EXCEPT ![th] = "static"]
    /\ result' = [result EXCEPT ![th] = <<>>]
    /\ UNCHANGED <<guard, topology, constructions>>
    /\ UNCHANGED <<stageVars, last>>

\* The thread reaches the declaration of the static: it runs the
\* initialiser if it must, passes if the static is ready, and otherwise
\* waits for the initialising thread.
TopologyEnter(th) ==
    /\ pc[th] = "static"
    /\ \/ /\ MustInitialize(guard)
          /\ guard' = "initializing"
          /\ pc' = [pc EXCEPT ![th] = "construct"]
       \/ /\ ~MustInitialize(guard)
          /\ guard = "ready"
          /\ guard' = guard
          /\ pc' = [pc EXCEPT ![th] = "return"]
    /\ UNCHANGED <<topology, constructions, callArgs, result>>
    /\ UNCHANGED <<stageVars, last>>

\* The initialising thread constructs the static and publishes it.
TopologyConstruct(th) ==
    /\ pc[th] = "construct"
    /\ topology' = <<TopologyInitializer(callArgs[th])>>
    /\ constructions' = constructions + 1
    /\ guard' = "ready"
    /\ pc' = [pc EXCEPT ![th] = "return"]
    /\ UNCHANGED <<callArgs, result>>
    /\ UNCHANGED <<stageVars, last>>

\* return VtValue(topology)
TopologyReturn(th) ==
    /\ pc[th] = "return"
    /\ result' = [result EXCEPT ![th] = topology]
    /\ pc' = [pc EXCEPT ![th] = "idle"]
    /\ UNCHANGED <<guard, topology, constructions, callArgs>>
    /\ UNCHANGED <<stageVars, last>>

GetTopology(th) ==
    \/ TopologyCall(th)
    \/ TopologyEnter(th)
    \/ TopologyConstruct(th)
    \/ TopologyReturn(th)

----
\* Specifications.

\* Variability tracking and change processing over a stage whose
\* attributes gain and lose time samples.
Next ==
    \/ SetTimeVarying
    \/ CallTrackVariability
    \/ CallProcessPropertyChange

Spec == Init /\ [][Next]_vars

\* Point generation over a stage whose attribute values are edited.
NextPoints ==
    \/ SetValue(Attrs)
    \/ CallGetPoints

SpecPoints == Init /\ [][NextPoints]_vars

\* Concurrent GetTopology calls interleaved with GetPoints calls and edits.
TopologyEdited == {"height", "radius"}

NextTopology ==
    \/ \E th \in Threads : GetTopology(th)
    \/ SetValue(TopologyEdited)
    \/ CallGetPoints

SpecTopology == Init /\ [][NextTopology]_vars

----
\* Properties of TrackVariability and ProcessPropertyChange (under Spec).

TrackedVariability == last.op = "TrackVariability"
ProcessedChange == last.op = "ProcessPropertyChange"

\* The queries the short-circuit allows, from what the base adapter left
\* and which attributes vary.
QueriesWhilePointsUnset(baseBits, varying) ==
    IF DirtyPoints \in baseBits THEN <<>>
    ELSE IF "height" \in varying THEN <<"height">>
    ELSE IF "radius" \in varying THEN <<"height", "radius">>
    ELSE <<"height", "radius", "axis">>

\* C1: TrackVariability queries height, radius, axis in that order and only
\* while DirtyPoints is unset: no query if the base adapter set it, none
\* after the query that sets it; with height varying and radius, axis
\* constant exactly height is queried and DirtyPoints ends up set.
C1_QueriesInOrderWhilePointsUnset ==
    TrackedVariability =>
        /\ last.queries = QueriesWhilePointsUnset(last.baseBits, timeVarying)
        /\ (/\ DirtyPoints \notin last.baseBits
            /\ "height" \in timeVarying
            /\ "radius" \notin timeVarying
            /\ "axis" \notin timeVarying)
           => (last.queries = <<"height">> /\ DirtyPoints \in last.bits)

C1_Witness ==
    /\ TrackedVariability
    /\ DirtyPoints \notin last.baseBits
    /\ timeVarying = {"height"}
    /\ last.queries = <<"height">>
    /\ DirtyPoints \in last.bits

\* The attributes GetPoints reads for a prim of the given schema type.
PointsAttrs(type) ==
    IF type = "Capsule" THEN {"height", "radius", "axis"}
    ELSE IF type = "Capsule_1"
         THEN {"height", "radiusBottom", "radiusTop", "axis"}
         ELSE {}

\* C2: after TrackVariability on a capsule of either schema variant,
\* DirtyPoints is set whenever an attribute that contributes to the points
\* of that variant is time-varying.
C2_PointsVaryingWhenContributorVaries ==
    TrackedVariability =>
        (PointsAttrs(primType) \cap timeVarying # {}
            => DirtyPoints \in last.bits)

C4_UnrecognisedNameGetsBaseMask ==
    ProcessedChange =>
        (last.propertyName \notin {"height", "radius", "axis"}
            => last.mask = last.baseMask)

C4_Witness ==
    /\ ProcessedChange
    /\ last.propertyName = "visibility"
    /\ last.baseMask = {"DirtyVisibility"}
    /\ last.mask = {"DirtyVisibility"}

\* C10: the bits TrackVariability returns are the bits the base adapter
\* left, or those with DirtyPoints added: nothing is cleared and no other
\* category is added.
C10_OnlyPointsAdded ==
    TrackedVariability =>
        \/ last.bits = last.baseBits
        \/ last.bits = last.baseBits \cup {DirtyPoints}

C10_Witness ==
    /\ TrackedVariability
    /\ last.baseBits = {"DirtyTransform"}
    /\ "axis" \in timeVarying
    /\ last.bits = {"DirtyTransform", DirtyPoints}

----
\* Properties of GetPoints (under SpecPoints).

GotPoints == last.op = "GetPoints"

Has(trace, event) == \E i \in 1..Len(trace) : trace[i] = event
Pos(trace, event) == CHOOSE i \in 1..Len(trace) : trace[i] = event

GeneratorInputs(out) ==
    [height |-> out.height, radiusBottom |-> out.radiusBottom,
     radiusTop |-> out.radiusTop, axis |-> out.axis]

\* The dual-radius prim with both radii holding what the legacy prim's
\* radius holds, and the same height and axis.
DualRadiusTwin(prim) ==
    [type |-> "Capsule_1",
     value |-> [prim.value EXCEPT !["radiusBottom"] = prim.value["radius"],
                                  !["radiusTop"] = prim.value["radius"]]]

\* C6: a prim of the legacy schema resolves to the same generator inputs
\* as the dual-radius prim with radiusBottom = radiusTop = its radius and
\* the same height and axis, and always to radiusBottom = radiusTop,
\* whether or not the radius read succeeds.
C6_LegacyResolvesAsEqualRadii ==
    (GotPoints /\ primType = "Capsule") =>
        /\ last.out.radiusBottom = last.out.radiusTop
        /\ GeneratorInputs(last.out)
             = GeneratorInputs(GetPoints(DualRadiusTwin(ThePrim), last.time))

C6_Witness ==
    /\ GotPoints
    /\ primType = "Capsule"
    /\ value["radius"][last.time] = <<3>>
    /\ value["height"][last.time] = <<30>>
    /\ value["radiusTop"][last.time] = <<5>>
    /\ last.out.radiusBottom = 3
    /\ last.out.radiusTop = 3
    /\ last.out.height = 30

\* What a field resolves to: the value read from attribute a of the
\* matching variant if there is a matching variant and the read succeeds,
\* and the built-in default otherwise.
ReadOrDefault(a, time, default) ==
    IF primType \in {"Capsule", "Capsule_1"} /\ value[a][time] # <<>>
    THEN value[a][time][1]
    ELSE default

\* C7: each of height, radiusBottom, radiusTop and axis is the value read
\* from the matching variant when that read succeeds and its built-in
\* default otherwise, independently of the other fields (every field of the
\* matching variant is read, whichever reads fail); a prim matching
\* neither variant yields the four defaults.
C7_FieldwiseReadOrDefault ==
    GotPoints =>
        LET t == last.time
            bottom == IF primType = "Capsule" THEN "radius" ELSE "radiusBottom"
            top == IF primType = "Capsule" THEN "radius" ELSE "radiusTop"
        IN  /\ last.out.height = ReadOrDefault("height", t, 20)
            /\ last.out.radiusBottom = ReadOrDefault(bottom, t, 5)
            /\ last.out.radiusTop = ReadOrDefault(top, t, 5)
            /\ last.out.axis = ReadOrDefault("axis", t, "Z")
            /\ primType \in {"Capsule", "Capsule_1"} =>
                 \A a \in {"height", bottom, top, "axis"} :
                    Has(last.out.trace, <<"Get", a>>)
            /\ primType = "Other" =>
                 GeneratorInputs(last.out)
                   = [height |-> 20, radiusBottom |-> 5,
                      radiusTop |-> 5, axis |-> "Z"]

C7_Witness ==
    /\ GotPoints
    /\ primType = "Capsule_1"
    /\ value["height"][last.time] = <<>>
    /\ value["radiusTop"][last.time] = <<3>>
    /\ value["axis"][last.time] = <<"X">>
    /\ last.out.height = 20
    /\ last.out.radiusTop = 3
    /\ last.out.axis = "X"

----
\* Properties of GetTopology (under SpecTopology).

\* C8: across concurrent GetTopology calls interleaved with GetPoints
\* calls and edits, the topology is constructed at most once and every
\* call returns that one value, whatever the prim, the time and the
\* attribute values.
C8_TopologyConstructedOnce ==
    /\ constructions <= 1
    /\ topology # <<>> => topology = <<GenerateTopology(numRadial, numCapAxial)>>
    /\ \A th \in Threads :
         result[th] # <<>> =>
            /\ constructions = 1
            /\ result[th] = topology
    /\ \A t1, t2 \in Threads :
         (result[t1] # <<>> /\ result[t2] # <<>>) => result[t1] = result[t2]

C8_Witness ==
    /\ constructions = 1
    /\ result[1] # <<>>
    /\ result[2] # <<>>
    /\ callArgs[1] # callArgs[2]
    /\ edits > 0
    /\ GotPoints

====
